---- MODULE Spec2Model ----
(***************************************************************************)
(* Scroll- and hash-driven map choreography.                               *)
(*                                                                         *)
(* Two pages are modelled.  The story page (src/unnamed/part_000) tracks   *)
(* scrolling and docking and posts progress messages to the embedded map.  *)
(* The map page (src/unnamed/part_001, src/src/animators/slideAnimator.js) *)
(* receives those messages and hashchange events and dispatches the        *)
(* choreography handlers.  Spec is the story page, SpecMap the map page.   *)
(*                                                                         *)
(* Numbers are exact: a JavaScript number is an integer, a ratio n/d, an   *)
(* infinity or NaN.  Strings that the code parses are sequences of         *)
(* one-character strings.                                                  *)
(***************************************************************************)
EXTENDS Integers, Sequences, FiniteSets, TLC

VARIABLES
    \* ---- story page (part_000) ----
    scrollY,          \* window.scrollY
    classDocked,      \* target.classList.contains("docked")
    panels,           \* document.querySelectorAll("div.immersive-narrative-panel")
    iframes,          \* the iframe elements under the root node, in document order
    isDocked,
    dockStartScroll,
    lastScrollY,
    scrollDirection,
    currentSlide,
    posted,           \* the messages posted by the last handler, in order
    ev,               \* the last event handled and whether its handler threw
    \* ---- map page (part_001, slideAnimator.js) ----
    choreographyData,
    isEmbedded,
    lastSlideIndex,
    mapView,          \* the layers of mapView.map and the goTo calls of the last event
    timeSlider,       \* timeExtent and whether the slider is playing
    pendingLoads,     \* applyTrackRenderer calls waiting at trackLayer.when()
    calls,            \* the handler invocations of the last event, in order
    shownSlide,       \* the index of the slide slideAnimation ran for last
    mev               \* the last event of the map page

ctlVars == <<scrollY, classDocked, panels, iframes, isDocked,
             dockStartScroll, lastScrollY, scrollDirection, currentSlide, posted, ev>>

mapVars == <<choreographyData, isEmbedded, lastSlideIndex, mapView, timeSlider,
             pendingLoads, calls, shownSlide, mev>>

vars == <<ctlVars, mapVars>>

----------------------------------------------------------------------------
(* Bounds *)

MaxScroll == 1
MaxPanels == 2
MaxSlides == 2
MaxDen == 2
MaxClones == 1
MaxIframes == 2
MaxCoord == 1
MaxTime == 3
MaxStep == 2
MaxRenders == 2
MaxOffset == 3

----------------------------------------------------------------------------
(* JavaScript values *)

Null == [null |-> TRUE]
Undefined == [undefined |-> TRUE]

\* An object is truthy; null and undefined are not.
Truthy(v) == v # Null /\ v # Undefined

\* A number that is not finite, or a finite ratio n/d with d > 0.
NaN == [kind |-> "nan", n |-> 0, d |-> 1]
PosInf == [kind |-> "inf", n |-> 1, d |-> 1]
NegInf == [kind |-> "inf", n |-> -1, d |-> 1]
Ratio(n, d) == [kind |-> "fin", n |-> n, d |-> d]
Num(i) == Ratio(i, 1)

\* x / y for integers x, y, as JavaScript divides.
JsDivide(x, y) ==
    IF y = 0
    THEN IF x > 0 THEN PosInf ELSE IF x < 0 THEN NegInf ELSE NaN
    ELSE IF y > 0 THEN Ratio(x, y) ELSE Ratio(-x, -y)

\* a < b on numbers; every comparison with NaN is false.
JsLess(a, b) ==
    /\ a.kind # "nan" /\ b.kind # "nan"
    /\ IF a.kind = "inf"
       THEN a.n < 0 /\ ~(b.kind = "inf" /\ b.n < 0)
       ELSE IF b.kind = "inf"
            THEN b.n > 0
            ELSE a.n * b.d < b.n * a.d

NumEq(a, b) ==
    /\ a.kind = b.kind /\ a.kind # "nan"
    /\ IF a.kind = "inf" THEN a.n = b.n ELSE a.n * b.d = b.n * a.d

\* Math.min and Math.max return NaN when an argument is NaN.
MathMin(a, b) ==
    IF a.kind = "nan" \/ b.kind = "nan" THEN NaN ELSE IF JsLess(b, a) THEN b ELSE a

MathMax(a, b) ==
    IF a.kind = "nan" \/ b.kind = "nan" THEN NaN ELSE IF JsLess(a, b) THEN b ELSE a

----------------------------------------------------------------------------
(* Strings and parseInt *)

Digits == <<"0", "1", "2", "3", "4", "5", "6", "7", "8", "9">>

IsDigit(c) == \E i \in 1..Len(Digits) : Digits[i] = c

DigitValue(c) == (CHOOSE i \in 1..Len(Digits) : Digits[i] = c) - 1

IsWhiteSpace(c) == c = " "

\* The string without its leading white space.
RECURSIVE TrimStart(_)
TrimStart(s) ==
    IF s # <<>> /\ IsWhiteSpace(Head(s)) THEN TrimStart(Tail(s)) ELSE s

\* The longest prefix of s made of digits.
RECURSIVE DigitPrefix(_)
DigitPrefix(s) ==
    IF s # <<>> /\ IsDigit(Head(s)) THEN <<Head(s)>> \o DigitPrefix(Tail(s)) ELSE <<>>

RECURSIVE DecimalValue(_)
DecimalValue(s) ==
    IF s = <<>> THEN 0 ELSE DecimalValue(SubSeq(s, 1, Len(s) - 1)) * 10 + DigitValue(s[Len(s)])

\* parseInt(s, 10): white space is skipped, then an optional sign, then the
\* digits up to the first character that is not one; NaN without a digit.
ParseInt(s) ==
    LET t == TrimStart(s)
        signed == t # <<>> /\ Head(t) \in {"-", "+"}
        body == IF signed THEN Tail(t) ELSE t
        ds == DigitPrefix(body)
    IN  IF ds = <<>> THEN NaN
        ELSE IF signed /\ Head(t) = "-" THEN Num(-DecimalValue(ds)) ELSE Num(DecimalValue(ds))

\* s.split("#"): the pieces of s between the '#' characters.
RECURSIVE SplitHash(_)
SplitHash(s) ==
    IF \A i \in 1..Len(s) : s[i] # "#"
    THEN <<s>>
    ELSE LET i == CHOOSE k \in 1..Len(s) : s[k] = "#" /\ \A j \in 1..(k - 1) : s[j] # "#"
         IN  <<SubSeq(s, 1, i - 1)>> \o SplitHash(SubSeq(s, i + 1, Len(s)))

----------------------------------------------------------------------------
(* Lists *)

RemoveAt(seq, i) == SubSeq(seq, 1, i - 1) \o SubSeq(seq, i + 1, Len(seq))

InsertAt(seq, i, e) == SubSeq(seq, 1, i - 1) \o <<e>> \o SubSeq(seq, i, Len(seq))

----------------------------------------------------------------------------
(* Story page: panels and progress (part_000) *)

\* A narrative panel: the class that marks its position and the layout
\* values getPanelHeight reads.
PanelAt(i, n, h, m) ==
    [cls |-> IF i = 1 THEN "first" ELSE IF i = n THEN "last" ELSE "",
     offsetHeight |-> h, marginTop |-> m, marginBottom |-> m, paddingBottom |-> m]

\* The heights the layout gives the panels.
OffsetHeights == {1, 2}

\* The margin (and bottom padding) the style sheet gives the panels.
Margins == {0, 1}

\* The panel lists of a story: the first panel is marked "first", the last
\* of several "last"; one layout gives every panel the same height and
\* margins.
PanelLists ==
    UNION { { [i \in 1..n |-> PanelAt(i, n, h, m)] : h \in OffsetHeights, m \in Margins } :
            n \in 0..MaxPanels }

getPanelHeight(panel) ==
    IF panel.cls = "first"
    THEN panel.offsetHeight - panel.marginTop
    ELSE IF panel.cls = "last"
         THEN panel.offsetHeight - panel.paddingBottom
         ELSE panel.offsetHeight + panel.marginBottom + panel.marginTop

RECURSIVE SumHeights(_, _)
SumHeights(ps, k) ==
    IF k = 0 THEN 0 ELSE SumHeights(ps, k - 1) + getPanelHeight(ps[k])

\* panels[slide] exists (slide is 0-based).
HasPanel(ps, slide) == slide >= 0 /\ slide < Len(ps)

\* getPanelScrollBounds, for a slide whose panels[slide] exists; the loop
\* adds the heights of panels 0..slide-1 to dockStartScroll.
getPanelScrollBounds(ps, slide, dockStart) ==
    LET panelStartScroll == dockStart + SumHeights(ps, slide)
        panelHeight == getPanelHeight(ps[slide + 1])
    IN  [panelStartScroll |-> panelStartScroll,
         panelEndScroll |-> panelStartScroll + panelHeight]

getPanelProgress(ps, slide, y, dockStart) ==
    LET b == getPanelScrollBounds(ps, slide, dockStart)
        progress == JsDivide(y - b.panelStartScroll, b.panelEndScroll - b.panelStartScroll)
    IN  MathMax(Num(0), MathMin(Num(1), progress))

----------------------------------------------------------------------------
(* Story page: messages *)

HandshakeMessage ==
    [source |-> "storymap-controller", type |-> "handshake", slide |-> Undefined,
     progress |-> Undefined, isEmbedded |-> TRUE]

ProgressMessage(slide, progress) ==
    [source |-> "storymap-controller", type |-> "progress", slide |-> Num(slide),
     progress |-> progress, isEmbedded |-> TRUE]

Event(op, input, threw) == [op |-> op, input |-> input, threw |-> threw]

----------------------------------------------------------------------------
(* Story page: handlers *)

EmbedUrl == <<"u">>

\* The texts that follow the embed URL's '#': a slide index, a negative
\* one, an index followed by other text, and a text with a '#' of its own.
Frags == {<<"1">>, <<"-", "1">>, <<"1", "-">>, <<"1", "#", "-">>}

\* The values the environment gives the iframe's src attribute: none, the
\* embed URL, and the URL with a fragment.
SrcValues == {<<>>, EmbedUrl} \cup { EmbedUrl \o <<"#">> \o f : f \in Frags }

\* The callback of createIframeSrcObserver.
SlideOfSrc(newSrc) ==
    LET parts == SplitHash(newSrc)
        slideNumber == ParseInt(IF Len(parts) > 1 THEN parts[Len(parts)] ELSE <<"0">>)
    IN  IF slideNumber.kind = "nan" THEN 0 ELSE slideNumber.n

\* An iframe element: its dataset.observed flag, the handshake messages
\* posted to its window and the src observers attached to it.
Iframe(observed, handshakes, srcObservers) ==
    [observed |-> observed, handshakes |-> handshakes, srcObservers |-> srcObservers]

\* An iframe the story has just created.
NewIframe == Iframe(FALSE, 0, 0)

\* root.querySelector("iframe") and document.querySelector(iframeSelector)
\* find an element.
iframePresent == iframes # <<>>

\* The child-list changes under the root node: an iframe is inserted at a
\* place among the others, one is removed, one is moved to the front, or
\* something that is not an iframe changes.
DomChange(kind, at) == [kind |-> kind, at |-> at]

DomChanges(fs) ==
    { DomChange("insert", k) : k \in IF Len(fs) < MaxIframes THEN 1..(Len(fs) + 1) ELSE {} }
        \cup { DomChange("remove", k) : k \in 1..Len(fs) }
        \cup { DomChange("move", k) : k \in 2..Len(fs) }
        \cup { DomChange("other", 0) }

ApplyDomChange(fs, c) ==
    IF c.kind = "insert" THEN InsertAt(fs, c.at, NewIframe)
    ELSE IF c.kind = "remove" THEN RemoveAt(fs, c.at)
    ELSE IF c.kind = "move" THEN <<fs[c.at]>> \o RemoveAt(fs, c.at)
    ELSE fs

\* Line 121 without the test of the flag.
FoundAnyIframe(fs) == fs # <<>>

\* Line 121: querySelector returns the first iframe under the root, and it
\* does not carry the flag.
FoundUnobserved(fs) == fs # <<>> /\ ~fs[1].observed

InitCtl ==
    /\ scrollY \in 0..MaxScroll
    /\ classDocked \in BOOLEAN
    /\ panels \in PanelLists
    /\ iframes \in {<<>>, <<NewIframe>>}
    /\ isDocked = FALSE
    /\ dockStartScroll = Null
    /\ lastScrollY = scrollY
    /\ scrollDirection = "down"
    /\ currentSlide = 0
    /\ posted = <<>>
    /\ ev = Event("init", Null, FALSE)

\* The user (or the page) moves the scroll position; the scroll event
\* follows later.
UserScroll ==
    \E y \in 0..MaxScroll :
        /\ y # scrollY
        /\ scrollY' = y
        /\ posted' = <<>>
        /\ ev' = Event("userScroll", Num(y), FALSE)
        /\ UNCHANGED <<classDocked, panels, iframes, isDocked,
                       dockStartScroll, lastScrollY, scrollDirection, currentSlide, mapVars>>

\* Lines 99-101 with the mistake of capturing on every docking transition.
CapturedDockStartAnyDirection(docking, direction, currentScroll, old) ==
    IF docking THEN Num(currentScroll) ELSE old

\* dockStartScroll after the callback: captured on a docking transition
\* while scrollDirection is "down" (lines 94-101).
CapturedDockStart(docking, direction, currentScroll, old) ==
    IF docking /\ direction = "down" THEN Num(currentScroll) ELSE old

\* The class attribute of the docking target changes and the observer's
\* callback runs at the end of the same task.
DockingMutation ==
    \E currentlyDocked \in BOOLEAN :
        LET docking == currentlyDocked /\ ~isDocked
            afterDock == IF docking THEN TRUE ELSE isDocked
        IN  /\ classDocked' = currentlyDocked
            /\ dockStartScroll' =
                   CapturedDockStart(docking, scrollDirection, scrollY, dockStartScroll)
            /\ isDocked' = IF ~currentlyDocked /\ afterDock THEN FALSE ELSE afterDock
            /\ posted' = <<>>
            /\ ev' = Event("dockingMutation",
                           [docked |-> currentlyDocked, wasDocked |-> isDocked], FALSE)
            /\ UNCHANGED <<scrollY, panels, iframes, lastScrollY,
                           scrollDirection, currentSlide, mapVars>>

\* Lines 155-160 taking an unchanged position for a downward scroll.
DirectionUnlessUp(currentScroll, last, direction) ==
    IF currentScroll < last THEN "up" ELSE "down"

\* The direction of lines 155-160.
DirectionOf(currentScroll, last, direction) ==
    IF currentScroll > last THEN "down"
    ELSE IF currentScroll < last THEN "up"
    ELSE direction

\* Line 163 testing dockStartScroll alone.
TrackingOnceCaptured(docked, dockStart) == dockStart # Null

\* Line 163: the listener goes on only while docked with a captured start.
Tracking(docked, dockStart) == docked /\ dockStart # Null

\* The scroll listener of setupScrollListener.
ScrollEvent ==
    LET currentScroll == scrollY
        direction == DirectionOf(currentScroll, lastScrollY, scrollDirection)
        tracking == Tracking(isDocked, dockStartScroll)
        inList == currentSlide < Len(panels)
        throws == tracking /\ inList /\ ~HasPanel(panels, currentSlide)
        posts == tracking /\ inList /\ ~throws /\ iframePresent
    IN  /\ scrollDirection' = direction
        /\ lastScrollY' = currentScroll
        /\ posted' =
               IF posts
               THEN <<ProgressMessage(currentSlide,
                         getPanelProgress(panels, currentSlide, currentScroll, dockStartScroll.n))>>
               ELSE <<>>
        /\ ev' = Event("scroll", Num(currentScroll), throws)
        /\ UNCHANGED <<scrollY, classDocked, panels, iframes, isDocked,
                       dockStartScroll, currentSlide, mapVars>>

\* A mutation under the root node; the callback of watchForIframeForever
\* runs at the end of the same task.
RootMutation ==
    \E change \in DomChanges(iframes) :
        LET fs == ApplyDomChange(iframes, change)
            found == FoundUnobserved(fs)
        IN  /\ iframes' =
                   IF found
                   THEN [fs EXCEPT ![1] = Iframe(TRUE, @.handshakes + 1, @.srcObservers + 1)]
                   ELSE fs
            /\ currentSlide' = IF found THEN 0 ELSE currentSlide
            /\ posted' = IF found THEN <<HandshakeMessage>> ELSE <<>>
            /\ ev' = Event("rootMutation", change, FALSE)
            /\ UNCHANGED <<scrollY, classDocked, panels, isDocked, dockStartScroll,
                           lastScrollY, scrollDirection, mapVars>>

\* The src attribute of one of the iframes changes.  An iframe that
\* watchForIframeForever has found carries a src observer (lines 134-138),
\* whose callback runs at the end of the same task; one it has not found
\* (it was there before the root observer was attached, or it has never
\* been the first iframe at a callback) has none.
SrcMutation ==
    \E watched \in { iframes[i].srcObservers > 0 : i \in 1..Len(iframes) },
       newSrc \in SrcValues :
        /\ currentSlide' = IF watched THEN SlideOfSrc(newSrc) ELSE currentSlide
        /\ posted' = <<>>
        /\ ev' = Event("srcMutation", newSrc, FALSE)
        /\ UNCHANGED <<scrollY, classDocked, panels, iframes, isDocked,
                       dockStartScroll, lastScrollY, scrollDirection, mapVars>>

----------------------------------------------------------------------------
(* Map page: choreography data *)

Entry(k, v) == [key |-> k, value |-> v]

\* A choreography entry: the key/value pairs of the JSON object, in order.
Slide(entries) == [entries |-> entries]

Keys(slide) == [i \in 1..Len(slide.entries) |-> slide.entries[i].key]

HasKey(slide, k) == \E i \in 1..Len(slide.entries) : slide.entries[i].key = k

\* slide[k]
Get(slide, k) ==
    IF HasKey(slide, k)
    THEN slide.entries[CHOOSE i \in 1..Len(slide.entries) : slide.entries[i].key = k].value
    ELSE Undefined

List(items) == [items |-> items]

Viewpoint(r, s, x0, y0, x1, y1, wk, lwk) ==
    [rotation |-> r, scale |-> s,
     targetGeometry |-> [spatialReference |-> [latestWkid |-> lwk, wkid |-> wk],
                         xmin |-> x0, ymin |-> y0, xmax |-> x1, ymax |-> y1]]

TimeWindow(start, end, step, unit) ==
    [timeSliderStart |-> start, timeSliderEnd |-> end,
     timeSliderStep |-> step, timeSliderUnit |-> unit]

VpA == Viewpoint(0, 4, 0, 0, 2, 2, 1, 11)
VpB == Viewpoint(1, 8, 1, 3, 5, 6, 2, 12)
TsA == TimeWindow(1, 3, 1, "milliseconds")
LvA == [layersOn |-> List(<<"tracks">>), layersOff |-> List(<<"base">>)]
LvB == [layersOn |-> Undefined, layersOff |-> List(<<"tracks">>)]
TrA == [trackLayerName |-> "tracks", trackFieldName |-> "id", trackInfo |-> [enabled |-> TRUE]]

\* The slides of the map page's choreographies: a full one, one with keys
\* outside the handler tables (among them names every object inherits),
\* and one with null values.
SlidePool ==
    { Slide(<<Entry("viewpoint", VpA), Entry("timeSlider", TsA),
              Entry("layerVisibility", LvA), Entry("trackRenderer", TrA)>>),
      Slide(<<Entry("title", Num(1)), Entry("toString", Num(1)),
              Entry("__proto__", Num(1)), Entry("__defineGetter__", Num(1)),
              Entry("viewpoint", VpB), Entry("layerVisibility", LvB)>>),
      Slide(<<Entry("viewpoint", Null), Entry("layerVisibility", Null),
              Entry("timeSlider", TsA), Entry("trackRenderer", TrA)>>) }

\* The choreographies: up to MaxSlides slides, no two of them alike.
Choreographies ==
    UNION { { c \in [1..n -> SlidePool] : \A i, j \in 1..n : c[i] = c[j] => i = j } :
            n \in 0..MaxSlides }

\* data[index] for a JavaScript value index: undefined unless index is a
\* whole number inside the array.
SlideAt(data, index) ==
    IF /\ index # Null /\ index # Undefined
       /\ index.kind = "fin" /\ index.d = 1
       /\ index.n >= 0 /\ index.n < Len(data)
    THEN data[index.n + 1]
    ELSE Undefined

\* index + 1; undefined + 1 is NaN.
PlusOne(index) ==
    IF index = Undefined THEN NaN
    ELSE IF index = Null THEN Num(1)
    ELSE IF index.kind = "fin" THEN Ratio(index.n + index.d, index.d) ELSE index

----------------------------------------------------------------------------
(* Map page: the SDK objects *)

Layer(title, visible) ==
    [title |-> title, visible |-> visible,
     timeInfo |-> [startField |-> "time"], trackInfo |-> Null,
     loadStatus |-> "loaded"]

\* mapView: objs holds every layer object created so far, layers the
\* objects that mapView.map.layers contains, goTos the goTo calls of the
\* last event.
InitialMapView ==
    [objs |-> <<Layer("tracks", FALSE), Layer("base", TRUE)>>,
     layers |-> <<1, 2>>,
     goTos |-> <<>>]

UnconfiguredTimeSlider ==
    [fullTimeExtent |-> Null, timeExtent |-> Null, stops |-> Null, playing |-> FALSE]

World(mv, ts, pl) == [mapView |-> mv, timeSlider |-> ts, pendingLoads |-> pl]

\* What a handler leaves behind and whether it threw.
Outcome(w, threw) == [w |-> w, threw |-> threw]

GoToOptions == [animate |-> TRUE, duration |-> 1000]

\* mapView.goTo(Viewpoint.fromJSON(json), options), recorded with the JSON.
goTo(w, by, json) ==
    [w EXCEPT !.mapView.goTos =
        Append(@, [by |-> by, viewpoint |-> json, options |-> GoToOptions])]

----------------------------------------------------------------------------
(* Map page: scroll-linked handlers (part_001) *)

\* Line 60 blending from the wrong end.
interpolateFromNext(fromVal, toVal, progress) ==
    IF progress = Undefined \/ progress = Null THEN NaN
    ELSE IF progress.kind # "fin" THEN NaN
    ELSE Ratio(toVal * progress.d + (fromVal - toVal) * progress.n, progress.d)

\* fromVal + (toVal - fromVal) * progress, for integers fromVal and toVal.
interpolate(fromVal, toVal, progress) ==
    IF progress = Undefined \/ progress = Null THEN NaN
    ELSE IF progress.kind # "fin" THEN NaN
    ELSE Ratio(fromVal * progress.d + (toVal - fromVal) * progress.n, progress.d)

\* Line 58 throwing where it returns.
ThrowWithoutNext(w) == Outcome(w, TRUE)

\* Line 58: without a next viewpoint the handler returns.
ReturnWithoutNext(w) == Outcome(w, FALSE)

interpolateViewpoint(ctx, w) ==
    LET currentViewpoint == Get(ctx.slideCurrent, "viewpoint")
        nextViewpoint == IF ctx.slideNext = Undefined THEN Undefined
                         ELSE Get(ctx.slideNext, "viewpoint")
    IN  IF ~Truthy(nextViewpoint) THEN ReturnWithoutNext(w)
        ELSE IF ~Truthy(currentViewpoint) THEN Outcome(w, TRUE)
        ELSE LET cg == currentViewpoint.targetGeometry
                 ng == nextViewpoint.targetGeometry
                 viewpoint ==
                     [rotation |-> interpolate(currentViewpoint.rotation,
                                               nextViewpoint.rotation, ctx.progress),
                      scale |-> interpolate(currentViewpoint.scale,
                                            nextViewpoint.scale, ctx.progress),
                      targetGeometry |->
                          [spatialReference |->
                               [latestWkid |-> cg.spatialReference.latestWkid,
                                wkid |-> cg.spatialReference.wkid],
                           xmin |-> interpolate(cg.xmin, ng.xmin, ctx.progress),
                           ymin |-> interpolate(cg.ymin, ng.ymin, ctx.progress),
                           xmax |-> interpolate(cg.xmax, ng.xmax, ctx.progress),
                           ymax |-> interpolate(cg.ymax, ng.ymax, ctx.progress)]]
             IN  Outcome(goTo(w, "interpolateViewpoint", viewpoint), FALSE)

unitToMs(unit) ==
    CASE unit = "milliseconds" -> 1
      [] unit = "seconds" -> 1000
      [] unit = "minutes" -> 60 * 1000
      [] unit = "hours" -> 60 * 60 * 1000
      [] unit = "days" -> 24 * 60 * 60 * 1000
      [] unit = "weeks" -> 7 * 24 * 60 * 60 * 1000
      [] unit = "months" -> 30 * 24 * 60 * 60 * 1000
      [] unit = "years" -> 365 * 24 * 60 * 60 * 1000
      [] OTHER -> 0

Min(a, b) == IF a < b THEN a ELSE b
Max(a, b) == IF a > b THEN a ELSE b

\* Line 116 rounding down, as Math.floor does.
FloorDiv(a, b) == a \div b

\* Math.ceil(a / b) for integers a and b > 0.
CeilDiv(a, b) == -((-a) \div b)

\* The end of the extent interpolateTimeSlider computes (lines 115-123),
\* for stepMs > 0.
SnappedTime(start, end, stepMs, progress) ==
    IF progress = Undefined \/ progress = Null THEN NaN
    ELSE IF progress.kind # "fin" THEN NaN
    ELSE LET snappedOffset ==
                 CeilDiv((end - start) * progress.n, progress.d * stepMs) * stepMs
             snappedTime == start + snappedOffset
         IN  Num(Min(Max(snappedTime, start), end))

interpolateTimeSlider(ctx, w) ==
    LET slideTimeData == Get(ctx.slideCurrent, "timeSlider")
    IN  IF ~Truthy(slideTimeData)
        THEN Outcome(w, FALSE)   \* the TypeError is caught at line 129
        ELSE LET start == slideTimeData.timeSliderStart
                 end == slideTimeData.timeSliderEnd
                 stepMs == slideTimeData.timeSliderStep
                               * unitToMs(slideTimeData.timeSliderUnit)
             IN  IF stepMs <= 0
                 THEN Outcome(w, FALSE)   \* line 112 returns
                 ELSE Outcome(
                          [w EXCEPT !.timeSlider.timeExtent =
                                        [start |-> Null,
                                         end |-> SnappedTime(start, end, stepMs, ctx.progress)],
                                    !.timeSlider.playing = FALSE],
                          FALSE)

----------------------------------------------------------------------------
(* Map page: discrete handlers (slideAnimator.js) *)

toggleViewpoint(ctx, w) ==
    Outcome(goTo(w, "toggleViewpoint", Get(ctx.slideData, "viewpoint")), FALSE)

toggleTimeSlider(ctx, w) == Outcome(w, FALSE)

Range(seq) == { seq[i] : i \in 1..Len(seq) }

setLayerVisibility(mv, layerNames, visibility) ==
    IF Truthy(layerNames) /\ Len(layerNames.items) > 0
    THEN [mv EXCEPT !.objs =
            [u \in DOMAIN mv.objs |->
                IF u \in Range(mv.layers) /\ mv.objs[u].title \in Range(layerNames.items)
                THEN [mv.objs[u] EXCEPT !.visible = visibility]
                ELSE mv.objs[u]]]
    ELSE mv

\* Lines 78-79 in the other order: the off-pass before the on-pass.
toggleLayerVisibilityOffFirst(ctx, w) ==
    LET layerVisibility == Get(ctx.slideData, "layerVisibility")
    IN  IF ~Truthy(layerVisibility)
        THEN Outcome(w, TRUE)
        ELSE Outcome(
                 [w EXCEPT !.mapView =
                     setLayerVisibility(
                         setLayerVisibility(@, layerVisibility.layersOff, FALSE),
                         layerVisibility.layersOn, TRUE)],
                 FALSE)

toggleLayerVisibility(ctx, w) ==
    LET layerVisibility == Get(ctx.slideData, "layerVisibility")
    IN  IF ~Truthy(layerVisibility)
        THEN Outcome(w, TRUE)
        ELSE Outcome(
                 [w EXCEPT !.mapView =
                     setLayerVisibility(
                         setLayerVisibility(@, layerVisibility.layersOn, TRUE),
                         layerVisibility.layersOff, FALSE)],
                 FALSE)


\* trackLayer.clone(): a copy of the layer that has yet to load.
clone(layer) == [layer EXCEPT !.loadStatus = "loading"]

\* applyTrackRenderer up to its await: the layer found by title is removed,
\* cloned and the clone added; the rest waits for the clone to load.  An
\* exception (no trackRenderer or no timeSlider on the slide) is caught at
\* line 127 before anything is done.
toggleTrackRenderer(ctx, w) ==
    LET trackRenderer == Get(ctx.slideData, "trackRenderer")
        trackTimeConfig == Get(ctx.slideData, "timeSlider")
        mv == w.mapView
        found == { i \in 1..Len(mv.layers) :
                     mv.objs[mv.layers[i]].title = trackRenderer.trackLayerName }
    IN  IF ~Truthy(trackRenderer) \/ ~Truthy(trackTimeConfig) THEN Outcome(w, FALSE)
        ELSE IF found = {} THEN Outcome(w, FALSE)
        ELSE LET i == CHOOSE k \in found : \A j \in found : k <= j
                 trackLayer == Len(mv.objs) + 1
             IN  Outcome(
                     [w EXCEPT !.mapView.objs = Append(@, clone(mv.objs[mv.layers[i]])),
                               !.mapView.layers = Append(RemoveAt(@, i), trackLayer),
                               !.pendingLoads = @ \cup
                                   {[layer |-> trackLayer,
                                     trackRenderer |-> trackRenderer,
                                     unit |-> trackTimeConfig.timeSliderUnit,
                                     step |-> trackTimeConfig.timeSliderStep]}],
                     FALSE)

\* Lines 114-125 assigning to the layer the map holds under the title at
\* the time the load resolves, not to the invocation's own clone.
ApplyLoadedToMapLayer(mv, c) ==
    LET held == { u \in Range(mv.layers) :
                    mv.objs[u].title = c.trackRenderer.trackLayerName }
    IN  [mv EXCEPT !.objs =
            [u \in DOMAIN mv.objs |->
                IF u \in held
                THEN [mv.objs[u] EXCEPT
                         !.loadStatus = "loaded",
                         !.visible = TRUE,
                         !.timeInfo = [startField |-> @.startField,
                                       trackIdField |-> c.trackRenderer.trackFieldName,
                                       interval |-> [unit |-> c.unit, value |-> c.step]],
                         !.trackInfo = c.trackRenderer.trackInfo]
                ELSE IF u = c.layer THEN [mv.objs[u] EXCEPT !.loadStatus = "loaded"]
                ELSE mv.objs[u]]]

\* applyTrackRenderer after trackLayer.when() has resolved (lines 114-125).
ApplyLoaded(mv, c) ==
    [mv EXCEPT !.objs[c.layer] =
        [@ EXCEPT !.loadStatus = "loaded",
                  !.visible = TRUE,
                  !.timeInfo = [startField |-> @.startField,
                                trackIdField |-> c.trackRenderer.trackFieldName,
                                interval |-> [unit |-> c.unit, value |-> c.step]],
                  !.trackInfo = c.trackRenderer.trackInfo]]

\* trackLayer.when() rejects: the catch of line 127 logs the error.
LoadFailed(mv, c) == [mv EXCEPT !.objs[c.layer].loadStatus = "failed"]

----------------------------------------------------------------------------
(* Map page: the dispatchers *)

ScrollHandlerKeys == {"viewpoint", "timeSlider"}

SlideHandlerKeys == {"viewpoint", "timeSlider", "layerVisibility", "trackRenderer"}

NON_EMBED_EXCLUDE_KEYS == {"viewpoint", "timeSlider"}

\* The functions every object literal inherits from Object.prototype.
ObjectPrototypeFunctions ==
    {"constructor", "toString", "toLocaleString", "valueOf", "hasOwnProperty",
     "isPrototypeOf", "propertyIsEnumerable", "__defineGetter__", "__defineSetter__",
     "__lookupGetter__", "__lookupSetter__"}

\* choreographyHandlers[key] for a handler table written as an object
\* literal with the keys ownKeys: an own handler, an inherited function,
\* the prototype object itself, or undefined.
Property(ownKeys, key) ==
    IF key \in ownKeys THEN [type |-> "function", own |-> TRUE]
    ELSE IF key \in ObjectPrototypeFunctions THEN [type |-> "function", own |-> FALSE]
    ELSE IF key = "__proto__" THEN [type |-> "object", own |-> FALSE]
    ELSE [type |-> "undefined", own |-> FALSE]

\* An inherited function called with the context object as its only
\* argument: __defineGetter__ and __defineSetter__ reject the missing
\* accessor function, the others return.
InheritedThrows(key) == key \in {"__defineGetter__", "__defineSetter__"}

Call(dispatcher, key, own, threw) ==
    [dispatcher |-> dispatcher, key |-> key, own |-> own, threw |-> threw]

\* The state a dispatch threads through its handlers.
Dispatch(w, cs, escaped) == [w |-> w, calls |-> cs, escaped |-> escaped]

ScrollInvoke(key, ctx, w) ==
    IF key = "viewpoint" THEN interpolateViewpoint(ctx, w)
    ELSE IF key = "timeSlider" THEN interpolateTimeSlider(ctx, w)
    ELSE Outcome(w, InheritedThrows(key))

\* Lines 39-45 without the try/catch: the first exception ends the loop
\* and leaves the dispatcher.
RECURSIVE ScrollEachNoCatch(_, _, _)
ScrollEachNoCatch(keys, ctx, st) ==
    IF keys = <<>> \/ st.escaped THEN st
    ELSE LET key == Head(keys)
             r == ScrollInvoke(key, ctx, st.w)
             call == Call("scrollAnimation", key, key \in ScrollHandlerKeys, r.threw)
         IN  ScrollEachNoCatch(Tail(keys), ctx,
                               Dispatch(r.w, Append(st.calls, call), r.threw))

\* The forEach of scrollAnimation: each handler runs inside its own
\* try/catch.
RECURSIVE ScrollEach(_, _, _)
ScrollEach(keys, ctx, st) ==
    IF keys = <<>> THEN st
    ELSE LET key == Head(keys)
             r == ScrollInvoke(key, ctx, st.w)
             call == Call("scrollAnimation", key, key \in ScrollHandlerKeys, r.threw)
         IN  ScrollEach(Tail(keys), ctx, Dispatch(r.w, Append(st.calls, call), st.escaped))

IsScrollHandler(key) == Property(ScrollHandlerKeys, key).type = "function"

scrollAnimation(slideCurrent, slideNext, progress, st) ==
    LET context == [slideCurrent |-> slideCurrent, slideNext |-> slideNext,
                    progress |-> progress]
    IN  ScrollEach(SelectSeq(Keys(slideCurrent), IsScrollHandler), context, st)

SlideInvoke(key, ctx, w) ==
    IF key = "viewpoint" THEN toggleViewpoint(ctx, w)
    ELSE IF key = "timeSlider" THEN toggleTimeSlider(ctx, w)
    ELSE IF key = "layerVisibility" THEN toggleLayerVisibility(ctx, w)
    ELSE IF key = "trackRenderer" THEN toggleTrackRenderer(ctx, w)
    ELSE IF Property(SlideHandlerKeys, key).type = "function"
         THEN Outcome(w, InheritedThrows(key))
         ELSE Outcome(w, TRUE)   \* calling what is not a function is a TypeError

\* Line 29 as its comment words it: skipping when not embedded.
SkippedWhenNotEmbedded(embedded, key) == ~embedded /\ key \in NON_EMBED_EXCLUDE_KEYS

\* The embedded-mode test of line 29.
SkippedWhenEmbedded(embedded, key) == embedded /\ key \in NON_EMBED_EXCLUDE_KEYS

\* The forEach of slideAnimation (lines 24-36).
RECURSIVE SlideEach(_, _, _)
SlideEach(keys, ctx, st) ==
    IF keys = <<>> THEN st
    ELSE LET key == Head(keys)
             handler == Property(SlideHandlerKeys, key)
         IN  IF handler.type = "undefined" \/ SkippedWhenEmbedded(ctx.embedded, key)
             THEN SlideEach(Tail(keys), ctx, st)
             ELSE LET r == SlideInvoke(key, ctx, st.w)
                      call == Call("slideAnimation", key, handler.own, r.threw)
                  IN  SlideEach(Tail(keys), ctx,
                                Dispatch(r.w, Append(st.calls, call), st.escaped))

slideAnimation(slideData, st, embedded) ==
    SlideEach(Keys(slideData), [slideData |-> slideData, embedded |-> embedded], st)

----------------------------------------------------------------------------
(* Map page: events (part_001) *)

\* The progress values getPanelProgress yields: 0, 1, the ratios between
\* and NaN.
ProgressValues ==
    {NaN, Num(0), Num(1)}
        \cup UNION { { Ratio(n, d) : n \in 1..(d - 1) } : d \in 2..MaxDen }

\* The progress values of the messages the map page is sent.
MessageProgress == {NaN, Num(0), Ratio(1, 2), Num(1)}

\* The messages the story page posts (part_000 lines 126-132 and 171-182).
ControllerMessages ==
    {HandshakeMessage}
        \cup { ProgressMessage(slide, p) : slide \in 0..(MaxPanels - 1), p \in MessageProgress }

ForeignMessage ==
    [source |-> "other", type |-> "other", slide |-> Undefined, progress |-> Undefined,
     isEmbedded |-> FALSE]

\* The fragments the page is navigated to: an index, an index past the
\* end, a sign alone, a negative index, an index followed by other text.
HashFrags == {<<"1">>, <<"1", "1">>, <<"-">>, <<"-", "1">>, <<"1", "-">>}

\* window.location.hash: empty, or '#' and the fragment.
Hashes == {<<>>} \cup { <<"#">> \o f : f \in HashFrags }

\* The last event: its input, whether an exception left the listener, the
\* slide indices slideAnimation ran for, and the slide shown before it.
MapEvent(op, input, escaped, slideRuns, shownBefore) ==
    [op |-> op, input |-> input, escaped |-> escaped, slideRuns |-> slideRuns,
     shownBefore |-> shownBefore]

\* configureTimeSlider (lines 232-264); with no first slide its first
\* property access throws and the slider is left as it was.
configureTimeSlider(data, ts, ready, embedded) ==
    IF data = <<>> THEN ts
    ELSE LET cfg == Get(data[1], "timeSlider")
         IN  IF Truthy(cfg) /\ cfg.timeSliderStart # 0 /\ cfg.timeSliderEnd # 0
             THEN [fullTimeExtent |-> [start |-> Num(cfg.timeSliderStart),
                                       end |-> Num(cfg.timeSliderEnd)],
                   timeExtent |-> [start |-> Null, end |-> Num(cfg.timeSliderStart)],
                   stops |-> [interval |-> [value |-> cfg.timeSliderStep,
                                            unit |-> cfg.timeSliderUnit]],
                   playing |-> (ts.playing \/ (ready /\ ~embedded))]
             ELSE ts

ClearLog(mv) == [mv EXCEPT !.goTos = <<>>]

WithinCloneBound(mv) == Len(mv.objs) <= Len(InitialMapView.objs) + MaxClones

IdleCtl ==
    /\ scrollY = 0
    /\ classDocked = FALSE
    /\ panels = <<>>
    /\ iframes = <<>>
    /\ isDocked = FALSE
    /\ dockStartScroll = Null
    /\ lastScrollY = 0
    /\ scrollDirection = "down"
    /\ currentSlide = 0
    /\ posted = <<>>
    /\ ev = Event("init", Null, FALSE)

IdleMap ==
    /\ choreographyData = <<>>
    /\ isEmbedded = FALSE
    /\ lastSlideIndex = Null
    /\ mapView = InitialMapView
    /\ timeSlider = UnconfiguredTimeSlider
    /\ pendingLoads = {}
    /\ calls = <<>>
    /\ shownSlide = Null
    /\ mev = MapEvent("init", Null, FALSE, <<>>, Null)

\* The map page once initMapAnimator has run: the choreography is loaded,
\* the listeners are attached and the slider is configured from slide 0.
InitMap ==
    /\ IdleCtl
    /\ choreographyData \in Choreographies
    /\ isEmbedded = FALSE
    /\ lastSlideIndex = Null
    /\ mapView = InitialMapView
    /\ \E ready \in BOOLEAN :
           timeSlider = configureTimeSlider(choreographyData, UnconfiguredTimeSlider,
                                            ready, isEmbedded)
    /\ pendingLoads = {}
    /\ calls = <<>>
    /\ shownSlide = Null
    /\ mev = MapEvent("init", Null, FALSE, <<>>, Null)

\* A dispatch starts with the logs of the last event cleared.
StartDispatch(mv, ts, pl) == Dispatch(World(ClearLog(mv), ts, pl), <<>>, FALSE)

\* The body of the message listener (lines 182-204) for an accepted
\* message: what it leaves behind.
MessageListener(payload, data, last, st0) ==
    LET embedded == IF payload.isEmbedded THEN TRUE ELSE FALSE
        slideCurrent == SlideAt(data, payload.slide)
        slideNext == SlideAt(data, PlusOne(payload.slide))
        \* Object.keys(undefined) throws in scrollAnimation
        st1 == IF slideCurrent = Undefined THEN [st0 EXCEPT !.escaped = TRUE]
               ELSE scrollAnimation(slideCurrent, slideNext, payload.progress, st0)
        changed == ~st1.escaped /\ payload.slide # last
    IN  [isEmbedded |-> embedded,
         changed |-> changed,
         st |-> IF changed THEN slideAnimation(slideCurrent, st1, embedded) ELSE st1]

\* The message listener of setupMessageListener.
Message ==
    \E m \in ControllerMessages \cup {ForeignMessage} :
        \E r \in { IF m.source # "storymap-controller"
                   THEN [isEmbedded |-> isEmbedded, changed |-> FALSE,
                         st |-> StartDispatch(mapView, timeSlider, pendingLoads)]
                   ELSE MessageListener(m, choreographyData, lastSlideIndex,
                                        StartDispatch(mapView, timeSlider, pendingLoads)) } :
            /\ WithinCloneBound(r.st.w.mapView)
            /\ isEmbedded' = r.isEmbedded
            /\ lastSlideIndex' = IF r.changed THEN m.slide ELSE lastSlideIndex
            /\ mapView' = r.st.w.mapView
            /\ timeSlider' = r.st.w.timeSlider
            /\ pendingLoads' = r.st.w.pendingLoads
            /\ calls' = r.st.calls
            /\ shownSlide' = IF r.changed THEN m.slide ELSE shownSlide
            /\ mev' = MapEvent("message", m, r.st.escaped,
                               IF r.changed THEN <<m.slide>> ELSE <<>>, shownSlide)
            /\ UNCHANGED <<choreographyData, ctlVars>>

\* Line 215 parsing the hash with its '#'.
HashTextWithMark(hash) == hash

\* window.location.hash.substring(1)
HashText(hash) == SubSeq(hash, 2, Len(hash))

\* The body of the hashchange listener (lines 215-223).
HashListener(hash, data, embedded, st0) ==
    LET hashIndex == ParseInt(HashText(hash))
        valid == hashIndex.kind # "nan" /\ Truthy(SlideAt(data, hashIndex))
    IN  [hashIndex |-> hashIndex,
         valid |-> valid,
         st |-> IF valid THEN slideAnimation(SlideAt(data, hashIndex), st0, embedded)
                ELSE st0]

\* The hashchange listener of setupHashListener.
HashChange ==
    \E hash \in Hashes :
        \E r \in { HashListener(hash, choreographyData, isEmbedded,
                                StartDispatch(mapView, timeSlider, pendingLoads)) } :
            /\ WithinCloneBound(r.st.w.mapView)
            /\ mapView' = r.st.w.mapView
            /\ timeSlider' = r.st.w.timeSlider
            /\ pendingLoads' = r.st.w.pendingLoads
            /\ calls' = r.st.calls
            /\ shownSlide' = IF r.valid THEN r.hashIndex ELSE shownSlide
            /\ mev' = MapEvent("hashchange", hash, r.st.escaped,
                               IF r.valid THEN <<r.hashIndex>> ELSE <<>>, shownSlide)
            /\ UNCHANGED <<choreographyData, isEmbedded, lastSlideIndex, ctlVars>>

\* trackLayer.when() settles and applyTrackRenderer resumes; a rejection
\* is caught at line 127.
LayerLoaded ==
    \E c \in pendingLoads, resolved \in BOOLEAN :
        /\ mapView' = IF resolved THEN ApplyLoaded(ClearLog(mapView), c)
                      ELSE LoadFailed(ClearLog(mapView), c)
        /\ pendingLoads' = pendingLoads \ {c}
        /\ calls' = <<>>
        /\ mev' = MapEvent("layerLoaded", [layer |-> c.layer, resolved |-> resolved],
                           FALSE, <<>>, shownSlide)
        /\ UNCHANGED <<choreographyData, isEmbedded, lastSlideIndex, timeSlider,
                       shownSlide, ctlVars>>

NextMap ==
    \/ Message
    \/ HashChange
    \/ LayerLoaded

----------------------------------------------------------------------------
(* The scroll-linked dispatcher on its own inputs *)

ViewpointPool ==
    { Viewpoint(r, 4 * (r + 1), x, y, x + 2, y + 3, wk, wk + 10) :
        r \in 0..MaxCoord, x \in 0..MaxCoord, y \in 0..MaxCoord, wk \in 1..2 }

TimeUnits == {"milliseconds", "seconds", "fortnights"}

TimePool ==
    { TimeWindow(start, end, step, unit) :
        start \in 0..MaxTime, end \in 0..MaxTime, step \in 0..MaxStep, unit \in TimeUnits }

ScrollSlides ==
    { Slide(<<Entry("viewpoint", v)>>) : v \in ViewpointPool \cup {Null} }
        \cup { Slide(<<Entry("timeSlider", t)>>) : t \in TimePool }
        \cup { Slide(<<Entry("viewpoint", VpA), Entry("timeSlider", TsA)>>) }

NextSlides ==
    { Slide(<<Entry("viewpoint", v)>>) : v \in ViewpointPool \cup {Null} }
        \cup { Slide(<<>>) }

\* A current slide, with or without a next one, and a slider that may be
\* playing.
InitScroll ==
    /\ IdleCtl
    /\ choreographyData \in
           { <<c>> : c \in ScrollSlides } \cup (ScrollSlides \X NextSlides)
    /\ isEmbedded = TRUE
    /\ lastSlideIndex = Num(0)
    /\ mapView = InitialMapView
    /\ timeSlider \in { [UnconfiguredTimeSlider EXCEPT !.playing = b] : b \in BOOLEAN }
    /\ pendingLoads = {}
    /\ calls = <<>>
    /\ shownSlide = Num(0)
    /\ mev = MapEvent("init", Null, FALSE, <<>>, Null)

\* scrollAnimation(choreographyData[0], choreographyData[1], progress, ...)
ScrollAnimationCall ==
    \E progress \in ProgressValues :
        \E st \in { scrollAnimation(choreographyData[1], SlideAt(choreographyData, Num(1)),
                                    progress,
                                    StartDispatch(mapView, timeSlider, pendingLoads)) } :
            /\ mapView' = st.w.mapView
            /\ timeSlider' = st.w.timeSlider
            /\ pendingLoads' = st.w.pendingLoads
            /\ calls' = st.calls
            /\ mev' = MapEvent("scrollAnimation", [progress |-> progress], st.escaped, <<>>,
                               shownSlide)
            /\ UNCHANGED <<choreographyData, isEmbedded, lastSlideIndex, shownSlide, ctlVars>>

NextScroll == ScrollAnimationCall

----------------------------------------------------------------------------
(* The discrete dispatcher on its own inputs *)

MapTitles == {"tracks", "base"}

\* layersOn / layersOff as a choreography gives them: absent, empty, or
\* titles of which "other" names no layer of the map.
NameLists ==
    {Undefined, List(<<>>), List(<<"tracks">>), List(<<"base">>),
     List(<<"tracks", "base">>), List(<<"other">>)}

VisibilitySlides ==
    { Slide(<<Entry("layerVisibility", [layersOn |-> on, layersOff |-> off])>>) :
        on \in NameLists, off \in NameLists }

TrB == [trackLayerName |-> "tracks", trackFieldName |-> "id", trackInfo |-> [enabled |-> FALSE]]
TrOther == [trackLayerName |-> "other", trackFieldName |-> "id", trackInfo |-> [enabled |-> TRUE]]

\* Slides that re-apply a track renderer; the last one has no timeSlider.
TrackSlides ==
    { Slide(<<Entry("timeSlider", TsA), Entry("trackRenderer", tr)>>) :
        tr \in {TrA, TrB, TrOther} }
        \cup { Slide(<<Entry("trackRenderer", TrA)>>) }

\* The map with its two layers shown or hidden.
MapViews ==
    { [InitialMapView EXCEPT !.objs = <<Layer("tracks", a), Layer("base", b)>>] :
        a \in BOOLEAN, b \in BOOLEAN }

\* One slide that toggles layers, or one or two that re-apply a track
\* renderer.
InitSlide ==
    /\ IdleCtl
    /\ choreographyData \in
           { <<s>> : s \in VisibilitySlides \cup TrackSlides }
               \cup (TrackSlides \X TrackSlides)
    /\ isEmbedded \in BOOLEAN
    /\ lastSlideIndex = Num(0)
    /\ mapView \in MapViews
    /\ timeSlider = UnconfiguredTimeSlider
    /\ pendingLoads = {}
    /\ calls = <<>>
    /\ shownSlide = Num(0)
    /\ mev = MapEvent("init", Null, FALSE, <<>>, Null)

\* slideAnimation(choreographyData[i], mapView, timeSlider, isEmbedded)
SlideAnimationCall ==
    \E i \in 1..Len(choreographyData) :
        \E st \in { slideAnimation(choreographyData[i],
                                   StartDispatch(mapView, timeSlider, pendingLoads),
                                   isEmbedded) } :
            /\ Len(st.w.mapView.objs) <= Len(InitialMapView.objs) + MaxRenders
            /\ mapView' = st.w.mapView
            /\ timeSlider' = st.w.timeSlider
            /\ pendingLoads' = st.w.pendingLoads
            /\ calls' = st.calls
            /\ shownSlide' = Num(i - 1)
            /\ mev' = MapEvent("slideAnimation", [slide |-> Num(i - 1)], st.escaped,
                               <<Num(i - 1)>>, shownSlide)
            /\ UNCHANGED <<choreographyData, isEmbedded, lastSlideIndex, ctlVars>>

NextSlide ==
    \/ SlideAnimationCall
    \/ LayerLoaded

----------------------------------------------------------------------------
(* getPanelProgress on its own inputs *)

\* Margins up to one above the tallest offsetHeight.
WideMargins == {0, 1, 3}

\* One to MaxPanels panels of one layout.
ProgressPanelLists ==
    UNION { { [i \in 1..n |-> PanelAt(i, n, h, m)] : h \in OffsetHeights, m \in WideMargins } :
            n \in 1..MaxPanels }

\* A docked page with a captured dock start, a slide of the panel list and
\* a scroll position.
InitProgress ==
    /\ scrollY \in 0..MaxOffset
    /\ classDocked = TRUE
    /\ panels \in ProgressPanelLists
    /\ iframes = <<>>
    /\ isDocked = TRUE
    /\ dockStartScroll \in { Num(y) : y \in 0..MaxScroll }
    /\ lastScrollY = scrollY
    /\ scrollDirection = "down"
    /\ currentSlide \in 0..(Len(panels) - 1)
    /\ posted = <<>>
    /\ ev = Event("init", Null, FALSE)
    /\ IdleMap

\* getPanelProgress(panels, currentSlide, y) at a scroll position y, with
\* the bounds it has got from getPanelScrollBounds.
ProgressCall ==
    \E y \in 0..MaxOffset :
        /\ scrollY' = y
        /\ posted' = <<ProgressMessage(currentSlide,
                          getPanelProgress(panels, currentSlide, y, dockStartScroll.n))>>
        /\ ev' = Event("getPanelProgress",
                       [scrollY |-> y,
                        bounds |-> getPanelScrollBounds(panels, currentSlide,
                                                        dockStartScroll.n)],
                       FALSE)
        /\ UNCHANGED <<classDocked, panels, iframes, isDocked, dockStartScroll,
                       lastScrollY, scrollDirection, currentSlide, mapVars>>

NextProgress == ProgressCall

----------------------------------------------------------------------------
(* Specifications *)

Init == InitCtl /\ IdleMap

NextCtl ==
    \/ UserScroll
    \/ DockingMutation
    \/ ScrollEvent
    \/ RootMutation
    \/ SrcMutation

\* The story page.
Spec == Init /\ [][NextCtl]_vars

\* The map page.
SpecMap == InitMap /\ [][NextMap]_vars

\* scrollAnimation applied to drawn slides and progress values.
SpecScroll == InitScroll /\ [][NextScroll]_vars

\* slideAnimation applied to drawn slides while layers load.
SpecSlide == InitSlide /\ [][NextSlide]_vars

\* getPanelProgress applied to drawn panels, dock starts and positions.
SpecProgress == InitProgress /\ [][NextProgress]_vars

----------------------------------------------------------------------------
(* Story page: properties *)

InUnitInterval(p) == p.kind = "fin" /\ 0 <= p.n /\ p.n <= p.d

\* C1: every progress carried by a posted progress message is a number in
\* [0,1], whatever the scroll position, the dock start and the panel
\* heights, a panel of effective height 0 included.
C1_ProgressInUnitInterval ==
    \A i \in 1..Len(posted) :
        posted[i].type = "progress" => InUnitInterval(posted[i].progress)

DockingDownward ==
    /\ ev'.op = "dockingMutation"
    /\ ev'.input.docked /\ ~isDocked
    /\ scrollDirection = "down"

\* C2: dockStartScroll changes only in a docking mutation callback that
\* sees an undocked-to-docked transition while scrollDirection is "down",
\* and that callback sets it to the scrollY of that moment; every other
\* step (docking while "up", undocking, scroll events) leaves it unchanged.
C2_DockStartCapturedOnlyDockingDown ==
    [][ /\ DockingDownward => dockStartScroll' = Num(scrollY)
        /\ ~DockingDownward => dockStartScroll' = dockStartScroll ]_vars

\* A downward docking transition has captured a scroll position that the
\* scroll listener has not seen yet.
C2_Witness ==
    /\ ev.op = "dockingMutation"
    /\ ev.input.docked /\ ~ev.input.wasDocked
    /\ scrollDirection = "down"
    /\ dockStartScroll = Num(scrollY)
    /\ lastScrollY # scrollY

----------------------------------------------------------------------------
(* Map page: properties *)

CallCount(dispatcher, key) ==
    Cardinality({ i \in 1..Len(calls) :
                    calls[i].dispatcher = dispatcher /\ calls[i].key = key })

Threw(dispatcher) ==
    \E i \in 1..Len(calls) : calls[i].dispatcher = dispatcher /\ calls[i].threw

AcceptedMessage == mev.op = "message" /\ mev.input.source = "storymap-controller"

\* The slide the dispatchers of the last event were given.
DispatchedSlide ==
    IF AcceptedMessage THEN SlideAt(choreographyData, mev.input.slide)
    ELSE IF mev.op = "hashchange" /\ mev.slideRuns # <<>>
         THEN SlideAt(choreographyData, mev.slideRuns[1])
         ELSE Undefined

\* The keys of the dispatched slide each dispatcher has a handler for.
ScrollKeysOfSlide == Range(Keys(DispatchedSlide)) \cap ScrollHandlerKeys

SlideKeysOfSlide ==
    (Range(Keys(DispatchedSlide)) \cap SlideHandlerKeys)
        \ (IF isEmbedded THEN NON_EMBED_EXCLUDE_KEYS ELSE {})

\* C3: in both dispatchers, when the handler of one key throws, the
\* handlers of all dispatchable keys of the slide are still invoked exactly
\* once in that dispatch, and the dispatch itself does not throw.
C3_ThrowingHandlerIsolated ==
    /\ Threw("scrollAnimation") =>
           /\ ~mev.escaped
           /\ \A k \in ScrollKeysOfSlide : CallCount("scrollAnimation", k) = 1
    /\ Threw("slideAnimation") =>
           /\ ~mev.escaped
           /\ \A k \in SlideKeysOfSlide : CallCount("slideAnimation", k) = 1

\* One message in which a handler of each dispatcher threw and a later
\* handler of the same dispatch still ran.
C3_Witness ==
    /\ AcceptedMessage
    /\ calls = <<Call("scrollAnimation", "viewpoint", TRUE, TRUE),
                 Call("scrollAnimation", "timeSlider", TRUE, FALSE),
                 Call("slideAnimation", "layerVisibility", TRUE, TRUE),
                 Call("slideAnimation", "trackRenderer", TRUE, FALSE)>>

\* C4: a key without an entry in the dispatcher's handler table causes no
\* exception and no invocation: scrollAnimation invokes exactly the
\* handlers of the slide's keys among {viewpoint, timeSlider}, and
\* slideAnimation exactly those among the four (minus the embedded-mode
\* exclusions), each once.
C4_OnlyTableHandlersInvoked ==
    /\ \A i \in 1..Len(calls) : calls[i].own
    /\ (AcceptedMessage /\ ~mev.escaped) =>
           \A k \in ScrollKeysOfSlide : CallCount("scrollAnimation", k) = 1
    /\ mev.slideRuns # <<>> =>
           \A k \in SlideKeysOfSlide : CallCount("slideAnimation", k) = 1

GoToBy(by) == \E i \in 1..Len(mapView.goTos) : mapView.goTos[i].by = by

C8_NoRunForShownSlide ==
    (AcceptedMessage /\ mev.slideRuns # <<>>) => mev.slideRuns[1] # mev.shownBefore

\* C9: a controller message whose payload.slide is no valid index into the
\* choreography (absent, negative, past the end) is a no-op: no handler is
\* invoked and no exception leaves the listener.
C9_InvalidSlideIsNoOp ==
    (AcceptedMessage /\ SlideAt(choreographyData, mev.input.slide) = Undefined) =>
        calls = <<>> /\ ~mev.escaped

----------------------------------------------------------------------------
(* Map page: hashchange properties *)

\* An optional sign followed by digits and nothing else.
IsIntegerText(t) ==
    LET body == IF t # <<>> /\ Head(t) \in {"-", "+"} THEN Tail(t) ELSE t
    IN  body # <<>> /\ \A i \in 1..Len(body) : IsDigit(body[i])

IntegerTextValue(t) ==
    IF Head(t) = "-" THEN Num(-DecimalValue(Tail(t)))
    ELSE IF Head(t) = "+" THEN Num(DecimalValue(Tail(t)))
    ELSE Num(DecimalValue(t))

\* The lengths of the prefixes of t that are integer texts.
IntegerPrefixes(t) == { k \in 1..Len(t) : IsIntegerText(SubSeq(t, 1, k)) }

\* The longest prefix of t that is an integer text; empty if there is none.
LongestIntegerPrefix(t) ==
    LET ps == IntegerPrefixes(t)
    IN  IF ps = {} THEN <<>> ELSE SubSeq(t, 1, CHOOSE k \in ps : \A j \in ps : j <= k)

IndexesEntry(index) == index.n >= 0 /\ index.n < Len(choreographyData)

\* The text after '#' of the last hashchange event.
LastHashText == IF mev.input = <<>> THEN <<>> ELSE Tail(mev.input)

\* C10 as stated: slideAnimation is invoked if and only if the whole text
\* after '#' is an integer that indexes an existing choreography entry; a
\* malformed hash invokes nothing.
C10_RunsIffHashIsInteger ==
    mev.op = "hashchange" =>
        (mev.slideRuns # <<>> <=>
            /\ IsIntegerText(LastHashText)
            /\ IndexesEntry(IntegerTextValue(LastHashText)))

HashChangeStep == mev'.op = "hashchange"

NextHashText == IF mev'.input = <<>> THEN <<>> ELSE Tail(mev'.input)

\* C10 amended: slideAnimation is invoked, with the entry at the parsed
\* index, if and only if the text after '#' starts with an integer (an
\* optional sign and digits; what follows the digits is ignored) that
\* indexes an existing entry; otherwise no handler is invoked, no state
\* changes and nothing is thrown.
C10_RunsIffHashStartsWithInteger ==
    [][ HashChangeStep =>
          \A p \in { LongestIntegerPrefix(NextHashText) } :
          \A valid \in { p # <<>> /\ IndexesEntry(IntegerTextValue(p)) } :
              /\ valid => mev'.slideRuns = <<IntegerTextValue(p)>>
              /\ ~valid =>
                    /\ mev'.slideRuns = <<>> /\ calls' = <<>> /\ ~mev'.escaped
                    /\ mapView'.objs = mapView.objs /\ mapView'.layers = mapView.layers
                    /\ mapView'.goTos = <<>>
                    /\ UNCHANGED <<choreographyData, isEmbedded, lastSlideIndex, timeSlider,
                                   pendingLoads, shownSlide>> ]_vars

\* A hash whose integer is followed by other text ran slideAnimation for
\* slide 1.
C10_Witness ==
    /\ mev.op = "hashchange"
    /\ mev.input = <<"#", "1", "-">>
    /\ mev.slideRuns = <<Num(1)>>
    /\ calls # <<>>

----------------------------------------------------------------------------
(* The scroll-linked dispatcher: properties *)

ScrollCurrent == choreographyData[1]

ScrollNext == SlideAt(choreographyData, Num(1))

LastProgress == mev.input.progress

\* x = a + (b - a) * p for a number x, integers a, b and a ratio p.
IsBlend(x, a, b, p) ==
    /\ x.kind = "fin"
    /\ x.n * p.d = (a * p.d + (b - a) * p.n) * x.d
    /\ (p.n = 0 => x.n = a * x.d)
    /\ (p.n = p.d => x.n = b * x.d)

BothHaveViewpoint ==
    /\ Truthy(Get(ScrollCurrent, "viewpoint"))
    /\ ScrollNext # Undefined
    /\ Truthy(Get(ScrollNext, "viewpoint"))

\* C5: when the current and the next slide both have a viewpoint,
\* interpolateViewpoint passes goTo a viewpoint whose rotation, scale, xmin,
\* ymin, xmax and ymax are a + (b - a) * progress (the current slide's
\* values at progress 0, the next slide's at progress 1) and whose spatial
\* reference is the current slide's.
C5_ViewpointLinearBlend ==
    (mev.op = "scrollAnimation" /\ BothHaveViewpoint /\ LastProgress.kind = "fin") =>
        /\ Len(mapView.goTos) = 1
        /\ mapView.goTos[1].by = "interpolateViewpoint"
        /\ LET v == mapView.goTos[1].viewpoint
               a == Get(ScrollCurrent, "viewpoint")
               b == Get(ScrollNext, "viewpoint")
               p == LastProgress
           IN  /\ IsBlend(v.rotation, a.rotation, b.rotation, p)
               /\ IsBlend(v.scale, a.scale, b.scale, p)
               /\ IsBlend(v.targetGeometry.xmin, a.targetGeometry.xmin, b.targetGeometry.xmin, p)
               /\ IsBlend(v.targetGeometry.ymin, a.targetGeometry.ymin, b.targetGeometry.ymin, p)
               /\ IsBlend(v.targetGeometry.xmax, a.targetGeometry.xmax, b.targetGeometry.xmax, p)
               /\ IsBlend(v.targetGeometry.ymax, a.targetGeometry.ymax, b.targetGeometry.ymax, p)
               /\ v.targetGeometry.spatialReference = a.targetGeometry.spatialReference

\* Half way between two viewpoints that differ in every field and in their
\* spatial reference.
C5_Witness ==
    /\ mev.op = "scrollAnimation" /\ BothHaveViewpoint
    /\ LastProgress = Ratio(1, 2)
    /\ Len(mapView.goTos) = 1
    /\ LET a == Get(ScrollCurrent, "viewpoint")
           b == Get(ScrollNext, "viewpoint")
       IN  /\ a.rotation # b.rotation
           /\ a.targetGeometry.xmin # b.targetGeometry.xmin
           /\ a.targetGeometry.ymin # b.targetGeometry.ymin
           /\ a.targetGeometry.spatialReference # b.targetGeometry.spatialReference
           /\ NumEq(mapView.goTos[1].viewpoint.rotation,
                    Ratio(a.rotation + b.rotation, 2))

StepMsOf(t) == t.timeSliderStep * unitToMs(t.timeSliderUnit)

SnappableWindow ==
    /\ mev.op = "scrollAnimation"
    /\ Truthy(Get(ScrollCurrent, "timeSlider"))
    /\ LET t == Get(ScrollCurrent, "timeSlider")
       IN  t.timeSliderStart <= t.timeSliderEnd /\ StepMsOf(t) > 0
    /\ LastProgress.kind = "fin"

----------------------------------------------------------------------------
(* Story page: iframe and scroll properties *)

HashPositions(src) == { i \in 1..Len(src) : src[i] = "#" }

\* The text after the last '#' of src (src has one).
AfterLastHash(src) ==
    SubSeq(src, (CHOOSE i \in HashPositions(src) : \A j \in HashPositions(src) : j <= i) + 1,
           Len(src))

\* The integer the text after the last '#' starts with; 0 when src has no
\* '#' or the text does not start with an integer.
SlideNamedBy(src) ==
    IF HashPositions(src) = {} THEN 0
    ELSE LET p == LongestIntegerPrefix(AfterLastHash(src))
         IN  IF p = <<>> THEN 0 ELSE IntegerTextValue(p).n

\* C11: after every change of the iframe's src attribute currentSlide is
\* the integer parsed from the text after the last '#' (0 without a '#' or
\* without an integer there), and every progress message posted carries
\* the currentSlide of that moment as its slide.
C11_SlideFollowsSrc ==
    /\ ev.op = "srcMutation" => currentSlide = SlideNamedBy(ev.input)
    /\ \A i \in 1..Len(posted) :
           posted[i].type = "progress" => posted[i].slide = Num(currentSlide)

RootMutationStep == ev'.op = "rootMutation"

HandshakenOnce(fs) ==
    \A i \in 1..Len(fs) : fs[i].handshakes <= 1 /\ fs[i].srcObservers <= 1

\* C12 as stated: no iframe is sent the handshake or given a src observer
\* more than once, and a mutation that inserts a new iframe posts the
\* handshake and resets currentSlide to 0.
C12_EveryInsertedIframeHandshaken ==
    /\ HandshakenOnce(iframes)
    /\ (ev.op = "rootMutation" /\ ev.input.kind = "insert") =>
           (posted = <<HandshakeMessage>> /\ currentSlide = 0)

\* C12 amended: no iframe is sent the handshake or given a src observer
\* more than once; a mutation callback that finds the first iframe under
\* the root without the flag flags it, posts the handshake and resets
\* currentSlide to 0; a callback that finds no iframe, or the first one
\* flagged, changes nothing, also when a new iframe stands behind it.
C12_FirstUnflaggedIframeHandshakenOnce ==
    [][ RootMutationStep =>
          \A fs \in { ApplyDomChange(iframes, ev'.input) } :
              /\ HandshakenOnce(iframes')
              /\ Len(iframes') = Len(fs)
              /\ \A i \in 2..Len(fs) : iframes'[i] = fs[i]
              /\ IF fs # <<>> /\ ~fs[1].observed
                 THEN /\ iframes'[1] = Iframe(TRUE, 1, 1)
                      /\ posted' = <<HandshakeMessage>>
                      /\ currentSlide' = 0
                 ELSE /\ fs # <<>> => iframes'[1] = fs[1]
                      /\ posted' = <<>>
                      /\ currentSlide' = currentSlide ]_vars

\* A second iframe has been found and handshaken after the first one, each
\* of them once, and the slide pointer has been reset.
C12_Witness ==
    /\ ev.op = "rootMutation"
    /\ Len(iframes) = 2
    /\ \A i \in 1..2 : iframes[i] = Iframe(TRUE, 1, 1)
    /\ posted = <<HandshakeMessage>>
    /\ currentSlide = 0

\* C19: every scroll event, docked or not, sets lastScrollY to the current
\* scrollY and scrollDirection to "down" if scrollY is above the previous
\* lastScrollY, to "up" if it is below, and leaves it if they are equal; no
\* other event changes either, so a docking callback reads the direction
\* the latest scroll event with a changed scrollY has set.
C19_DirectionTracksScrollEvents ==
    [][/\ ev'.op = "scroll" =>
            /\ lastScrollY' = scrollY
            /\ scrollY > lastScrollY => scrollDirection' = "down"
            /\ scrollY < lastScrollY => scrollDirection' = "up"
            /\ scrollY = lastScrollY => scrollDirection' = scrollDirection
       /\ ev'.op # "scroll" =>
            /\ lastScrollY' = lastScrollY
            /\ scrollDirection' = scrollDirection
       /\ ev'.op = "dockingMutation" =>
            (dockStartScroll' # dockStartScroll => scrollDirection = "down")
      ]_vars

\* An upward scroll event has been handled while scroll tracking was off.
C19_Witness ==
    /\ ev.op = "scroll"
    /\ scrollDirection = "up"
    /\ lastScrollY = scrollY
    /\ ~isDocked \/ dockStartScroll = Null

PostsProgress(messages) ==
    \E k \in 1..Len(messages) : messages[k].type = "progress"

\* C20: a progress message is posted only by a scroll event handled while
\* isDocked is true and dockStartScroll is not null; dockStartScroll leaves
\* null only at a docking transition while the scroll direction is "down",
\* so none is posted before the first such transition, and none while
\* undocked.
C20_ProgressOnlyWhileTracking ==
    [][/\ PostsProgress(posted') =>
            /\ ev'.op = "scroll"
            /\ isDocked /\ isDocked'
            /\ dockStartScroll # Null
       /\ (dockStartScroll = Null /\ dockStartScroll' # Null) =>
            /\ ev'.op = "dockingMutation"
            /\ ~isDocked /\ isDocked'
            /\ scrollDirection = "down"
      ]_vars

\* A scroll event while docked has posted a progress message.
C20_Witness ==
    /\ ev.op = "scroll"
    /\ PostsProgress(posted)
    /\ isDocked
    /\ dockStartScroll # Null

\* C21: a scroll event posts a progress message only while currentSlide is
\* an index of the panel list, and with currentSlide outside the list (a
\* negative index included) it posts nothing and throws nothing.
C21_SlideOutsidePanelsIsSkipped ==
    /\ PostsProgress(posted) => HasPanel(panels, currentSlide)
    /\ (ev.op = "scroll" /\ ~HasPanel(panels, currentSlide)) =>
           (posted = <<>> /\ ~ev.threw)

\* b >= a on numbers; false when either is NaN.
NotBelow(b, a) == a.kind # "nan" /\ b.kind # "nan" /\ ~JsLess(b, a)

\* C22: getPanelScrollBounds gives slide i the start dockStartScroll plus
\* the effective heights of panels 0..i-1 and the end start plus the
\* effective height of panel i, so the end of slide i is the start of slide
\* i+1; and of two calls of getPanelProgress for the same slide, the one at
\* the higher scrollY does not give the lower progress.
C22_BoundsAdjacentProgressMonotone ==
    [][ev'.op = "getPanelProgress" =>
        /\ ev'.input.bounds.panelStartScroll =
               dockStartScroll.n + SumHeights(panels, currentSlide)
        /\ ev'.input.bounds.panelEndScroll =
               ev'.input.bounds.panelStartScroll + getPanelHeight(panels[currentSlide + 1])
        /\ HasPanel(panels, currentSlide + 1) =>
               getPanelScrollBounds(panels, currentSlide + 1,
                                    dockStartScroll.n).panelStartScroll
                   = ev'.input.bounds.panelEndScroll
        /\ (ev.op = "getPanelProgress" /\ scrollY' >= scrollY) =>
               NotBelow(posted'[1].progress, posted[1].progress)
      ]_vars

----------------------------------------------------------------------------
(* The scroll-linked dispatcher: properties of the skipped cases *)

NoNextViewpoint ==
    /\ mev.op = "scrollAnimation"
    /\ HasKey(ScrollCurrent, "viewpoint")
    /\ ScrollNext = Undefined \/ ~Truthy(Get(ScrollNext, "viewpoint"))

UnsteppedWindow ==
    /\ mev.op = "scrollAnimation"
    /\ Truthy(Get(ScrollCurrent, "timeSlider"))
    /\ StepMsOf(Get(ScrollCurrent, "timeSlider")) <= 0
    /\ LastProgress.kind = "fin"

\* C14: when the step resolves to zero or less (a step of 0 or an unknown
\* unit), interpolateTimeSlider sets the slider's extent to an open start
\* and the end min(start + (end - start) * progress, end), and stops
\* playback.
C14_UnsteppedTimeClampedToEnd ==
    UnsteppedWindow =>
        LET t == Get(ScrollCurrent, "timeSlider")
            start == t.timeSliderStart
            end == t.timeSliderEnd
            p == LastProgress
            rawN == start * p.d + (end - start) * p.n   \* raw = rawN / p.d
            x == timeSlider.timeExtent
        IN  /\ x # Null
            /\ x.start = Null
            /\ x.end.kind = "fin"
            /\ IF rawN <= end * p.d THEN x.end.n * p.d = rawN * x.end.d
                                   ELSE x.end.n = end * x.end.d
            /\ ~timeSlider.playing

----------------------------------------------------------------------------
(* Map page: playback, layers and track renderers *)

\* C15: in a session in which the controller's messages arrive (the map
\* is embedded) play() is never called, so the slider is not playing once
\* the page knows that it is embedded.
C15_NoPlaybackWhenEmbedded == isEmbedded => ~timeSlider.playing

\* The titles a layersOn / layersOff value names.
NamedBy(layerNames) ==
    IF Truthy(layerNames) THEN Range(layerNames.items) ELSE {}

\* A call of slideAnimation on a slide whose layerVisibility is an object.
LayerVisibilityStep ==
    /\ mev'.op = "slideAnimation"
    /\ HasKey(choreographyData[mev'.input.slide.n + 1], "layerVisibility")
    /\ Truthy(Get(choreographyData[mev'.input.slide.n + 1], "layerVisibility"))

\* C16: the layerVisibility handler shows every map layer whose title is in
\* layersOn and not in layersOff, hides every map layer whose title is in
\* layersOff (also when the title is in layersOn), and leaves the others as
\* they were; an absent or empty list names no layer.
C16_LayersOnThenOff ==
    [][LayerVisibilityStep =>
        \A lv \in { Get(choreographyData[mev'.input.slide.n + 1], "layerVisibility") } :
            /\ mapView'.layers = mapView.layers
            /\ Len(mapView'.objs) = Len(mapView.objs)
            /\ \A u \in Range(mapView.layers) :
                   mapView'.objs[u] =
                       [mapView.objs[u] EXCEPT !.visible =
                           IF mapView.objs[u].title \in NamedBy(lv.layersOff) THEN FALSE
                           ELSE IF mapView.objs[u].title \in NamedBy(lv.layersOn) THEN TRUE
                           ELSE @]]_vars

\* A slide naming "tracks" in both lists and "base" in layersOn only has run.
C16_Witness ==
    /\ mev.op = "slideAnimation"
    /\ HasKey(choreographyData[1], "layerVisibility")
    /\ Get(choreographyData[1], "layerVisibility") =
           [layersOn |-> List(<<"tracks", "base">>), layersOff |-> List(<<"tracks">>)]
    /\ calls = <<Call("slideAnimation", "layerVisibility", TRUE, FALSE)>>
    /\ ~mapView.objs[1].visible
    /\ mapView.objs[2].visible

\* A call of slideAnimation on a slide with a trackRenderer object.
TrackRendererStep ==
    /\ mev'.op = "slideAnimation"
    /\ HasKey(choreographyData[mev'.input.slide.n + 1], "trackRenderer")
    /\ Truthy(Get(choreographyData[mev'.input.slide.n + 1], "trackRenderer"))

\* The positions in mapView.map.layers of the layers titled title.
Titled(mv, title) ==
    { i \in 1..Len(mv.layers) : mv.objs[mv.layers[i]].title = title }

\* The step and unit a slide configures, undefined without a timeSlider.
StepOf(slide) ==
    IF Truthy(Get(slide, "timeSlider")) THEN Get(slide, "timeSlider").timeSliderStep
    ELSE Undefined

UnitOf(slide) ==
    IF Truthy(Get(slide, "timeSlider")) THEN Get(slide, "timeSlider").timeSliderUnit
    ELSE Undefined

\* C17: a trackRenderer invocation on a map with a layer of the configured
\* title removes that layer and adds an unchanged clone of it, whose load is
\* then awaited; visible, timeInfo (the clone's startField, the slide's
\* step and unit) and trackInfo are assigned to the clone when its load
\* completes and to no other layer; without a layer of that title the map
\* and its layers stay as they are; no error escapes in either case.
C17_RemoveCloneLoadThenAssign ==
    [][/\ TrackRendererStep =>
            \A slide \in { choreographyData[mev'.input.slide.n + 1] } :
            \A found \in { Titled(mapView, Get(slide, "trackRenderer").trackLayerName) } :
                /\ ~mev'.escaped
                /\ \A k \in 1..Len(calls') : ~calls'[k].threw
                /\ IF found = {}
                   THEN /\ mapView'.objs = mapView.objs
                        /\ mapView'.layers = mapView.layers
                        /\ pendingLoads' = pendingLoads
                   ELSE \E i \in found :
                        /\ \A j \in found : i <= j
                        /\ mapView'.objs =
                               Append(mapView.objs,
                                      [mapView.objs[mapView.layers[i]]
                                          EXCEPT !.loadStatus = "loading"])
                        /\ mapView'.layers =
                               Append(RemoveAt(mapView.layers, i), Len(mapView.objs) + 1)
                        /\ pendingLoads' = pendingLoads \cup
                               {[layer |-> Len(mapView.objs) + 1,
                                 trackRenderer |-> Get(slide, "trackRenderer"),
                                 unit |-> UnitOf(slide),
                                 step |-> StepOf(slide)]}
       /\ (mev'.op = "layerLoaded" /\ mev'.input.resolved) =>
            \E c \in pendingLoads :
                /\ c.layer = mev'.input.layer
                /\ mapView'.layers = mapView.layers
                /\ mapView'.objs =
                       [mapView.objs EXCEPT ![c.layer] =
                           [@ EXCEPT !.loadStatus = "loaded",
                                     !.visible = TRUE,
                                     !.timeInfo =
                                         [startField |-> @.startField,
                                          trackIdField |-> c.trackRenderer.trackFieldName,
                                          interval |-> [unit |-> c.unit, value |-> c.step]],
                                     !.trackInfo = c.trackRenderer.trackInfo]]
      ]_vars

\* The layer objects trackLayer.clone() has created.
Clones(mv) == (Len(InitialMapView.objs) + 1)..Len(mv.objs)

\* The last slideAnimation call ran a trackRenderer invocation that got as
\* far as replacing a layer titled title.
LatestReplaced(title) ==
    \E slide \in { choreographyData[shownSlide.n + 1] } :
        /\ HasKey(slide, "trackRenderer")
        /\ Truthy(Get(slide, "trackRenderer"))
        /\ Truthy(Get(slide, "timeSlider"))
        /\ Get(slide, "trackRenderer").trackLayerName = title

\* Two or more invocations have replaced a layer and every load has resolved.
AllInvocationsCompleted ==
    /\ Len(mapView.objs) >= Len(InitialMapView.objs) + 2
    /\ pendingLoads = {}
    /\ \A u \in Clones(mapView) : mapView.objs[u].loadStatus = "loaded"

====
